---- MODULE Spec2Model ----
(***************************************************************************)
(* The hash-chain insertion of zlib-rs (src/deflate/hash_calc.rs): the     *)
(* three HashCalc strategies (Standard, Roll, Crc32), quick_insert_string  *)
(* and insert_string over the compressor State (window, head, prev,        *)
(* w_mask, ins_h), and the Crc32 capability probe.                         *)
(*                                                                         *)
(* A u32 is kept as the pair <<hi, lo>> of its 16-bit halves, so that no   *)
(* intermediate value of the arithmetic leaves the 31-bit integers.        *)
(***************************************************************************)
EXTENDS Integers, Sequences, FiniteSets, TLC

\* ------------------------------------------------------------------ bounds

\* Length of the window buffer (state.window.filled()).
WinLen == 8

\* Largest count passed to insert_string.
MaxCount == 3

\* Number of insertion calls in one run.
MaxOps == 3

\* ------------------------------------------------------- machine integers

\* Number of values of a u16 (the type of head/prev entries).
U16 == 65536

\* Number of values of a u8 (a window byte).
U8 == 256

RECURSIVE BitXor(_, _)
BitXor(a, b) ==
    IF a = 0 THEN b
    ELSE IF b = 0 THEN a
    ELSE ((a + b) % 2) + 2 * BitXor(a \div 2, b \div 2)

RECURSIVE BitAnd(_, _)
BitAnd(a, b) ==
    IF a = 0 \/ b = 0 THEN 0
    ELSE ((a % 2) * (b % 2)) + 2 * BitAnd(a \div 2, b \div 2)

\* The u32 with value n, for 0 <= n < 2^31.
ToU32(n) == << (n \div U16) % U16, n % U16 >>

\* `x as usize` of a u32 below 2^31.
ToInt(x) == x[1] * U16 + x[2]

\* ^ and & of every pair of 4-bit values, tabulated.
XorNibble == [a \in 0..15 |-> [b \in 0..15 |-> BitXor(a, b)]]

AndNibble == [a \in 0..15 |-> [b \in 0..15 |-> BitAnd(a, b)]]

\* The bitwise operation tabulated in tab applied to two 16-bit values, four
\* bits at a time.
Nibbles16(tab, a, b) ==
    tab[a \div 4096][b \div 4096] * 4096
      + tab[(a \div 256) % 16][(b \div 256) % 16] * 256
      + tab[(a \div 16) % 16][(b \div 16) % 16] * 16
      + tab[a % 16][b % 16]

Xor32(x, y) == << Nibbles16(XorNibble, x[1], y[1]), Nibbles16(XorNibble, x[2], y[2]) >>

And32(x, y) == << Nibbles16(AndNibble, x[1], y[1]), Nibbles16(AndNibble, x[2], y[2]) >>

\* x << k on u32, 0 <= k <= 16: the bits shifted out are dropped.
Shl32(x, k) ==
    << (x[1] * (2 ^ k) + (x[2] \div (2 ^ (16 - k)))) % U16,
       (x[2] * (2 ^ k)) % U16 >>

\* x >> 1 on u32.
Shr1(x) == << x[1] \div 2, (x[2] \div 2) + (x[1] % 2) * (U16 \div 2) >>

\* x >> 8 on u32.
Shr8(x) == << x[1] \div U8, (x[2] \div U8) + (x[1] % U8) * U8 >>

\* x >> 16 on u32.
Shr16(x) == << 0, x[1] >>

\* x + y on u32, wrapping.
Add32(x, y) ==
    << (x[1] + y[1] + ((x[2] + y[2]) \div U16)) % U16, (x[2] + y[2]) % U16 >>

\* The full product of two 16-bit values, as a u32.
Mul16(a, b) ==
    LET t == a * (b \div U8)
        u == a * (b % U8)
    IN  Add32(<< (t \div U8) % U16, (t % U8) * U8 >>, ToU32(u))

\* u32::wrapping_mul
WrappingMul(x, y) ==
    Add32(Mul16(x[2], y[2]),
          << (Mul16(x[1], y[2])[2] + Mul16(x[2], y[1])[2]) % U16, 0 >>)

\* ----------------------------------------------------- build configuration

Variants == {"Standard", "Crc32", "Roll"}

\* A build of the crate and the machine it runs on: target_arch,
\* target_endian, the "std" feature, whether the CPU has the CRC32C
\* instruction (hw_crc), and whether arithmetic overflow is checked.
Targets ==
    { [arch |-> "x86_64",  endian |-> "little", std |-> TRUE,  hw_crc |-> TRUE,  overflow_checks |-> FALSE],
      [arch |-> "x86",     endian |-> "little", std |-> FALSE, hw_crc |-> TRUE,  overflow_checks |-> TRUE],
      [arch |-> "x86",     endian |-> "little", std |-> TRUE,  hw_crc |-> FALSE, overflow_checks |-> FALSE],
      [arch |-> "aarch64", endian |-> "little", std |-> TRUE,  hw_crc |-> TRUE,  overflow_checks |-> FALSE],
      [arch |-> "aarch64", endian |-> "little", std |-> TRUE,  hw_crc |-> FALSE, overflow_checks |-> FALSE],
      [arch |-> "aarch64", endian |-> "little", std |-> FALSE, hw_crc |-> TRUE,  overflow_checks |-> TRUE],
      [arch |-> "aarch64", endian |-> "little", std |-> FALSE, hw_crc |-> FALSE, overflow_checks |-> FALSE],
      [arch |-> "riscv64", endian |-> "little", std |-> TRUE,  hw_crc |-> FALSE, overflow_checks |-> FALSE],
      [arch |-> "s390x",   endian |-> "big",    std |-> TRUE,  hw_crc |-> FALSE, overflow_checks |-> TRUE] }

\* is_supported answering true on every target.
is_supported_Always(t) == TRUE

\* Crc32HashCalc::is_supported
is_supported(t) ==
    IF t.arch = "x86" \/ t.arch = "x86_64" THEN TRUE
    ELSE IF t.arch = "aarch64" /\ t.std THEN t.hw_crc
    ELSE FALSE

\* ------------------------------------------------------------ hash family

STD_MIN_MATCH == 3

HASH_SIZE == 65536

\* HashCalc::HASH_CALC_OFFSET
HASH_CALC_OFFSET(v) == IF v = "Roll" THEN STD_MIN_MATCH - 1 ELSE 0

\* HashCalc::HASH_CALC_MASK
HASH_CALC_MASK(v) == IF v = "Crc32" THEN HASH_SIZE - 1 ELSE 32768 - 1

\* The multiplier 2654435761 of StandardHashCalc::hash_calc.
StandardMultiplier == << 40503, 31153 >>

\* StandardHashCalc::hash_calc
StandardHashCalc(h, val) == Shr16(WrappingMul(val, StandardMultiplier))

\* RollHashCalc::hash_calc with the result masked to the table size.
RollHashCalc_Masked(h, val) == And32(Xor32(Shl32(h, 5), val), ToU32(32768 - 1))

\* RollHashCalc::hash_calc sliding the prior hash by 4 bits, not 5.
RollHashCalc_Slide4(h, val) == Xor32(Shl32(h, 4), val)

\* RollHashCalc::hash_calc
RollHashCalc(h, val) == Xor32(Shl32(h, 5), val)

\* The reflected CRC32C polynomial 0x82F63B78 of the crc32 instruction.
Crc32cPoly == << 33526, 15224 >>

\* n steps of the bitwise CRC: shift right, folding the polynomial in
\* whenever the bit shifted out is set.
RECURSIVE Crc32cBits(_, _)
Crc32cBits(t, n) ==
    IF n = 0 THEN t
    ELSE Crc32cBits(IF t[2] % 2 = 1 THEN Xor32(Shr1(t), Crc32cPoly) ELSE Shr1(t),
                    n - 1)

\* The eight bitwise steps of each byte value, tabulated.
Crc32cTable == [b \in 0..(U8 - 1) |-> Crc32cBits(<< 0, b >>, 8)]

\* Eight steps of the CRC at once.
Crc32cByte(t) == Xor32(Shr8(t), Crc32cTable[t[2] % U8])

\* _mm_crc32_u32 / __crc32cw: the CRC32C of the word val, folded into h
\* (32 bitwise steps on h XOR val).
Crc32cWord(h, val) == Crc32cByte(Crc32cByte(Crc32cByte(Crc32cByte(Xor32(h, val)))))

\* How a call of Crc32HashCalc::hash_calc can end on target t: the set of
\* outcomes, each "value" (it returns), "abort" (the unimplemented! panic)
\* or "fault" (the instruction is not implemented by the CPU). Executing the
\* intrinsic on a CPU without the instruction is undefined behaviour.
Crc32Outcomes(t) ==
    IF t.arch \in {"x86", "x86_64", "aarch64"}
    THEN (IF t.hw_crc THEN {"value"} ELSE {"value", "fault"})
    ELSE {"abort"}

\* hash_calc of strategy v (the value it returns when it returns).
hash_calc(v, h, val) ==
    CASE v = "Standard" -> StandardHashCalc(h, val)
      [] v = "Roll"     -> RollHashCalc(h, val)
      [] v = "Crc32"    -> Crc32cWord(h, val)

\* update_hash without the mask.
update_hash_NoMask(v, h, val) == hash_calc(v, h, val)

\* HashCalc::update_hash
update_hash(v, h, val) == And32(hash_calc(v, h, val), ToU32(HASH_CALC_MASK(v)))

\* u32::from_ne_bytes of the four bytes w (a sequence) on target t.
from_ne_bytes(t, w) ==
    IF t.endian = "little"
    THEN << w[3] + U8 * w[4], w[1] + U8 * w[2] >>
    ELSE << w[1] * U8 + w[2], w[3] * U8 + w[4] >>

\* --------------------------------------------------------------- the State

\* The head array: HASH_SIZE entries of u16, kept as the function from the
\* buckets whose entry is not 0 to that entry (every other entry is 0).
HeadAt(head, hm) == IF hm \in DOMAIN head THEN head[hm] ELSE 0

\* state.head[hm] = v
HeadSet(head, hm, v) ==
    IF v = 0
    THEN [b \in DOMAIN head \ {hm} |-> head[b]]
    ELSE [b \in DOMAIN head \cup {hm} |-> IF b = hm THEN v ELSE head[b]]

\* The tables and the register a call works on, and what it leaves:
\*   status  "ok", "oob" (slice index out of range), "abort" (unimplemented!),
\*           "fault" (CPU without the instruction), "overflow" (u16 addition)
\*   ret     the value returned by quick_insert_string
\*   log     one entry per position the call processed, in order: the stored
\*           position idx, the bucket hm, the word or byte val that was hashed
Result(head, prev, ins_h, status, ret, log) ==
    [head |-> head, prev |-> prev, ins_h |-> ins_h,
     status |-> status, ret |-> ret, log |-> log]

\* Thread storing the new position, not the old head, in the chain slot.
Thread_SelfLink(head, prev, slot, hm, idx) ==
    LET h == HeadAt(head, hm)
    IN  IF h # idx
        THEN [head |-> HeadSet(head, hm, idx),
              prev |-> [prev EXCEPT ![slot] = idx]]
        ELSE [head |-> head, prev |-> prev]

\* Thread without the `head != idx` guard.
Thread_NoGuard(head, prev, slot, hm, idx) ==
    [head |-> HeadSet(head, hm, idx),
     prev |-> [prev EXCEPT ![slot] = HeadAt(head, hm)]]

\* Thread writing the chain slot but leaving the head of the bucket as it was.
Thread_NoHeadUpdate(head, prev, slot, hm, idx) ==
    LET h == HeadAt(head, hm)
    IN  IF h # idx
        THEN [head |-> head, prev |-> [prev EXCEPT ![slot] = h]]
        ELSE [head |-> head, prev |-> prev]

\* Thread taking a head of 0 for an empty bucket and threading into it
\* whatever idx is.
Thread_ZeroIsEmpty(head, prev, slot, hm, idx) ==
    LET h == HeadAt(head, hm)
    IN  IF h # idx \/ h = 0
        THEN [head |-> HeadSet(head, hm, idx),
              prev |-> [prev EXCEPT ![slot] = h]]
        ELSE [head |-> head, prev |-> prev]

\* The body shared by both insertions (lines 26-30, 46-50, 88-92, 107-111):
\* thread the old head into prev and make idx the head, unless it already is.
\* slot is the index into prev the caller computed from w_mask.
Thread(head, prev, slot, hm, idx) ==
    LET h == HeadAt(head, hm)
    IN  IF h # idx
        THEN [head |-> HeadSet(head, hm, idx),
              prev |-> [prev EXCEPT ![slot] = h]]
        ELSE [head |-> head, prev |-> prev]

\* HashCalc::quick_insert_string passing the register, not 0, as the running
\* hash.
DefaultQuickInsertString_RunningHash(v, t, oc, window, w_mask, st, string) ==
    LET off == string + HASH_CALC_OFFSET(v)
    IN  IF off > Len(window) \/ Len(window) - off < 4
        THEN Result(st.head, st.prev, st.ins_h, "oob", 0, << >>)
        ELSE IF oc # "value"
        THEN Result(st.head, st.prev, st.ins_h, oc, 0, << >>)
        ELSE
          LET val  == from_ne_bytes(t, SubSeq(window, off + 1, off + 4))
              hm   == ToInt(And32(hash_calc(v, ToU32(st.ins_h), val),
                                  ToU32(HASH_CALC_MASK(v))))
              head == HeadAt(st.head, hm)
              idx  == string % U16
              th   == Thread(st.head, st.prev, BitAnd(string, w_mask), hm, idx)
          IN  Result(th.head, th.prev, st.ins_h, "ok", head,
                     << [idx |-> idx, hm |-> hm, val |-> val] >>)

\* HashCalc::quick_insert_string (Standard and Crc32). oc is how the hash_calc
\* call ends on this target.
DefaultQuickInsertString(v, t, oc, window, w_mask, st, string) ==
    LET off == string + HASH_CALC_OFFSET(v)
    IN  IF off > Len(window) \/ Len(window) - off < 4
        THEN Result(st.head, st.prev, st.ins_h, "oob", 0, << >>)
        ELSE IF oc # "value"
        THEN Result(st.head, st.prev, st.ins_h, oc, 0, << >>)
        ELSE
          LET val  == from_ne_bytes(t, SubSeq(window, off + 1, off + 4))
              hm   == ToInt(And32(hash_calc(v, ToU32(0), val), ToU32(HASH_CALC_MASK(v))))
              head == HeadAt(st.head, hm)
              idx  == string % U16
              th   == Thread(st.head, st.prev, BitAnd(string, w_mask), hm, idx)
          IN  Result(th.head, th.prev, st.ins_h, "ok", head,
                     << [idx |-> idx, hm |-> hm, val |-> val] >>)

\* RollHashCalc::quick_insert_string using the new hash as the bucket but
\* not storing it in state.ins_h.
RollQuickInsertString_NoPersist(v, t, oc, window, w_mask, st, string) ==
    LET off == string + HASH_CALC_OFFSET(v)
    IN  IF off >= Len(window)
        THEN Result(st.head, st.prev, st.ins_h, "oob", 0, << >>)
        ELSE
          LET val   == ToU32(window[off + 1])
              hm    == ToInt(And32(hash_calc(v, ToU32(st.ins_h), val),
                                   ToU32(HASH_CALC_MASK(v))))
              head  == HeadAt(st.head, hm)
              idx   == string % U16
              th    == Thread(st.head, st.prev, BitAnd(string, w_mask), hm, idx)
          IN  Result(th.head, th.prev, st.ins_h, "ok", head,
                     << [idx |-> idx, hm |-> hm, val |-> val] >>)

\* RollHashCalc::quick_insert_string
RollQuickInsertString(v, t, oc, window, w_mask, st, string) ==
    LET off == string + HASH_CALC_OFFSET(v)
    IN  IF off >= Len(window)
        THEN Result(st.head, st.prev, st.ins_h, "oob", 0, << >>)
        ELSE
          LET val   == ToU32(window[off + 1])
              ins_h == ToInt(And32(hash_calc(v, ToU32(st.ins_h), val),
                                   ToU32(HASH_CALC_MASK(v))))
              hm    == ins_h
              head  == HeadAt(st.head, hm)
              idx   == string % U16
              th    == Thread(st.head, st.prev, BitAnd(string, w_mask), hm, idx)
          IN  Result(th.head, th.prev, ins_h, "ok", head,
                     << [idx |-> idx, hm |-> hm, val |-> val] >>)

\* quick_insert_string returning the head it leaves, not the head it found.
quick_insert_string_RetNew(v, t, oc, window, w_mask, st, string) ==
    LET r == IF v = "Roll"
             THEN RollQuickInsertString(v, t, oc, window, w_mask, st, string)
             ELSE DefaultQuickInsertString(v, t, oc, window, w_mask, st, string)
    IN  IF r.status = "ok"
        THEN [r EXCEPT !.ret = HeadAt(r.head, r.log[1].hm)]
        ELSE r

\* quick_insert_string of strategy v
quick_insert_string(v, t, oc, window, w_mask, st, string) ==
    IF v = "Roll"
    THEN RollQuickInsertString(v, t, oc, window, w_mask, st, string)
    ELSE DefaultQuickInsertString(v, t, oc, window, w_mask, st, string)

\* AddU16 with the offset i of the position within the batch left out.
AddU16_NoOffset(t, string, i) == string % U16

\* `string as u16 + i as u16`: the sum, or -1 when the addition overflows in
\* a build that checks overflow (it wraps in one that does not).
AddU16(t, string, i) ==
    LET a == string % U16
        b == i % U16
    IN  IF a + b >= U16 /\ t.overflow_checks THEN -1 ELSE (a + b) % U16

\* The loop of HashCalc::insert_string over slice[..count + 3].windows(4),
\* from its i-th window on; r is the Result so far.
RECURSIVE DefaultInsertLoop(_, _, _, _, _, _, _, _)
DefaultInsertLoop(v, t, slice, w_mask, string, count, i, r) ==
    IF i >= count \/ r.status # "ok" THEN r
    ELSE
      LET idx == AddU16(t, string, i)
      IN  IF idx < 0
          THEN [r EXCEPT !.status = "overflow"]
          ELSE
            LET val == from_ne_bytes(t, SubSeq(slice, i + 1, i + 4))
                hm  == ToInt(And32(hash_calc(v, ToU32(0), val), ToU32(HASH_CALC_MASK(v))))
                th  == Thread(r.head, r.prev, BitAnd(idx, w_mask), hm, idx)
            IN  DefaultInsertLoop(v, t, slice, w_mask, string, count, i + 1,
                    Result(th.head, th.prev, r.ins_h, "ok", 0,
                           Append(r.log, [idx |-> idx, hm |-> hm, val |-> val])))

\* HashCalc::insert_string taking the windows one at a time: it inserts the
\* positions whose four bytes are there, and faults at the first that lacks
\* them.
DefaultInsertString_Lazy(v, t, oc, window, w_mask, st, string, count) ==
    LET off == string + HASH_CALC_OFFSET(v)
        r0  == Result(st.head, st.prev, st.ins_h, "ok", 0, << >>)
    IN  IF off > Len(window) \/ Len(window) - off < 4
        THEN [r0 EXCEPT !.status = "oob"]
        ELSE IF oc # "value" /\ count > 0
        THEN [r0 EXCEPT !.status = oc]
        ELSE IF count + 3 > Len(window) - off
        THEN [DefaultInsertLoop(v, t, SubSeq(window, off + 1, Len(window)),
                                w_mask, string, Len(window) - off - 3, 0, r0)
                EXCEPT !.status = "oob"]
        ELSE DefaultInsertLoop(v, t, SubSeq(window, off + 1, off + count + 3),
                               w_mask, string, count, 0, r0)

\* HashCalc::insert_string (Standard and Crc32)
DefaultInsertString(v, t, oc, window, w_mask, st, string, count) ==
    LET off == string + HASH_CALC_OFFSET(v)
        r0  == Result(st.head, st.prev, st.ins_h, "ok", 0, << >>)
    IN  IF off > Len(window) \/ count + 3 > Len(window) - off
        THEN [r0 EXCEPT !.status = "oob"]
        ELSE IF oc # "value" /\ count > 0
        THEN [r0 EXCEPT !.status = oc]
        ELSE DefaultInsertLoop(v, t, SubSeq(window, off + 1, off + count + 3),
                               w_mask, string, count, 0, r0)

\* The loop of RollHashCalc::insert_string over the bytes of slice.
RECURSIVE RollInsertLoop(_, _, _, _, _, _, _, _)
RollInsertLoop(v, t, slice, w_mask, string, count, i, r) ==
    IF i >= count \/ r.status # "ok" THEN r
    ELSE
      LET idx == AddU16(t, string, i)
      IN  IF idx < 0
          THEN [r EXCEPT !.status = "overflow"]
          ELSE
            LET val   == ToU32(slice[i + 1])
                ins_h == ToInt(And32(hash_calc(v, ToU32(r.ins_h), val),
                                     ToU32(HASH_CALC_MASK(v))))
                hm    == ins_h
                th    == Thread(r.head, r.prev, BitAnd(idx, w_mask), hm, idx)
            IN  RollInsertLoop(v, t, slice, w_mask, string, count, i + 1,
                    Result(th.head, th.prev, ins_h, "ok", 0,
                           Append(r.log, [idx |-> idx, hm |-> hm, val |-> val])))

\* RollHashCalc::insert_string
RollInsertString(v, t, oc, window, w_mask, st, string, count) ==
    LET off == string + HASH_CALC_OFFSET(v)
        r0  == Result(st.head, st.prev, st.ins_h, "ok", 0, << >>)
    IN  IF off > Len(window) \/ count > Len(window) - off
        THEN [r0 EXCEPT !.status = "oob"]
        ELSE RollInsertLoop(v, t, SubSeq(window, off + 1, off + count),
                            w_mask, string, count, 0, r0)

\* insert_string of strategy v
insert_string(v, t, oc, window, w_mask, st, string, count) ==
    IF v = "Roll"
    THEN RollInsertString(v, t, oc, window, w_mask, st, string, count)
    ELSE DefaultInsertString(v, t, oc, window, w_mask, st, string, count)

\* ------------------------------------------------------------ the machine

VARIABLES
    mode,      \* "insert": a compression job inserting; "calc": calls of the hash functions alone
    variant,   \* the HashCalcVariant of the job
    target,    \* the build and machine
    window,    \* state.window.filled(), a sequence of bytes (position p is window[p + 1])
    w_mask,    \* state.w_mask
    head,      \* state.head
    prev,      \* state.prev, w_mask + 1 entries
    ins_h,     \* state.ins_h
    seed,      \* the value of state.ins_h when the job started
    status,    \* "ok", or how the last call ended the job
    calls,     \* the insertion calls made, in order: op, string, count, oc, ret, log
    pre,       \* head, prev, ins_h, window and w_mask as they were before the last call
    hist,      \* the log entries of all calls, in order
    calc       \* the last call of a hash function: op, h, val, oc, out

vars == << mode, variant, target, window, w_mask, head, prev, ins_h, seed,
           status, calls, pre, hist, calc >>

\* The byte patterns the windows repeat.
Patterns == { << 97, 98 >>, << 0, 255, 97 >> }

\* The window buffers: WinLen bytes, each pattern repeated.
Windows == { [i \in 1..WinLen |-> pat[((i - 1) % Len(pat)) + 1]] : pat \in Patterns }

\* The window masks: window sizes 4 and 8.
WMasks == {3, 7}

\* The strategies and the targets the compression jobs run on: one job for
\* each behaviour of the insertions (the byte order of the word read, and how
\* Crc32HashCalc::hash_calc ends).
Jobs ==
    { j \in Variants \X Targets :
        \/ j[2].arch = "x86_64"
        \/ j[1] = "Standard" /\ j[2].arch = "s390x"
        \/ j[1] = "Crc32" /\ j[2].arch = "riscv64"
        \/ j[1] = "Crc32" /\ j[2].arch = "aarch64" /\ j[2].std /\ ~j[2].hw_crc }

\* The values the register holds when a job of strategy v starts on window w:
\* 0, and for Roll also the hash of the first STD_MIN_MATCH - 1 bytes.
Seeds(v, w) ==
    IF v = "Roll"
    THEN {0, ToInt(update_hash(v, update_hash(v, ToU32(0), ToU32(w[1])), ToU32(w[2])))}
    ELSE {2565}

\* The u32 arguments the hash functions are called with.
HSamples ==
    { ToU32(0), ToU32(2565), ToU32(16637), ToU32(29988),
      << 65535, 65535 >>, << 43690, 21845 >> }

ValSamples ==
    { ToU32(0), ToU32(93), ToU32(10), ToU32(101),
      << 12320, 8240 >>, << 65535, 65535 >> }

NoCall == [op |-> "none", string |-> 0, count |-> 0, oc |-> "value", ret |-> 0, log |-> << >>]

NoCalc == [op |-> "none", h |-> ToU32(0), val |-> ToU32(0), oc |-> "value", out |-> ToU32(0)]

EmptyHead == [b \in {} |-> 0]

\* The last insertion call, and the one before it.
Last == IF Len(calls) >= 1 THEN calls[Len(calls)] ELSE NoCall

Before == IF Len(calls) >= 2 THEN calls[Len(calls) - 1] ELSE NoCall

\* The highest position the calls so far have processed (0 before any).
Cursor == IF hist = << >> THEN 0 ELSE hist[Len(hist)].idx

\* The positions the next call is made at: a job inserts in increasing
\* window-position order, position after position, and may insert the
\* position it inserted last again.
NextStrings == {Cursor, Cursor + 1}

\* The first position of the window: a single insertion may be made at it at
\* any time, whatever was inserted before.
FirstPosition == 0

\* How the hash_calc calls of strategy v can end on target t.
Outcomes(v, t) == IF v = "Crc32" THEN Crc32Outcomes(t) ELSE {"value"}

InitInsert ==
    /\ mode = "insert"
    /\ \E j \in Jobs : variant = j[1] /\ target = j[2]
    /\ window \in Windows
    /\ w_mask \in WMasks
    /\ ins_h \in Seeds(variant, window)

InitCalc ==
    /\ mode = "calc"
    /\ variant \in Variants
    /\ target \in Targets
    /\ window = << >>
    /\ w_mask = 3
    /\ ins_h = 0

Init ==
    /\ InitInsert \/ InitCalc
    /\ seed = ins_h
    /\ head = EmptyHead
    /\ prev = [i \in 0..w_mask |-> 0]
    /\ status = "ok"
    /\ calls = << >>
    /\ pre = [head |-> head, prev |-> prev, ins_h |-> ins_h,
              window |-> window, w_mask |-> w_mask]
    /\ hist = << >>
    /\ calc = NoCalc

\* What a call that left r makes of the job.
Apply(op, string, count, oc, r) ==
    /\ head' = r.head
    /\ prev' = r.prev
    /\ ins_h' = r.ins_h
    /\ status' = r.status
    /\ calls' = Append(calls, [op |-> op, string |-> string, count |-> count,
                               oc |-> oc, ret |-> r.ret, log |-> r.log])
    /\ pre' = [head |-> head, prev |-> prev, ins_h |-> ins_h,
               window |-> window, w_mask |-> w_mask]
    /\ hist' = hist \o r.log
    /\ UNCHANGED << mode, variant, target, window, w_mask, seed, calc >>

Cur == [head |-> head, prev |-> prev, ins_h |-> ins_h]

\* A call of quick_insert_string(state, string).
QuickInsertString(string) ==
    /\ mode = "insert" /\ status = "ok" /\ Len(calls) < MaxOps
    /\ \E oc \in Outcomes(variant, target) :
          LET r == quick_insert_string(variant, target, oc, window, w_mask, Cur, string)
          IN  Apply("quick_insert_string", string, 1, oc, r)

\* A call of insert_string(state, string, count).
InsertString(string, count) ==
    /\ mode = "insert" /\ status = "ok" /\ Len(calls) < MaxOps
    /\ \E oc \in Outcomes(variant, target) :
          LET r == insert_string(variant, target, oc, window, w_mask, Cur, string, count)
          IN  Apply("insert_string", string, count, oc, r)

\* The calls of one run of the hash functions pass the same arguments.
SameArgs(h, val) == calc.op \in {"none", "is_supported"} \/ (calc.h = h /\ calc.val = val)

\* A call of hash_calc(h, val) of the job's strategy.
HashCalcCall(h, val) ==
    /\ mode = "calc" /\ SameArgs(h, val)
    /\ \E oc \in Outcomes(variant, target) :
          calc' = [op |-> "hash_calc", h |-> h, val |-> val, oc |-> oc,
                   out |-> IF oc = "value" THEN hash_calc(variant, h, val) ELSE ToU32(0)]
    /\ UNCHANGED << mode, variant, target, window, w_mask, head, prev, ins_h,
                    seed, status, calls, pre, hist >>

\* A call of update_hash(h, val) of the job's strategy.
UpdateHashCall(h, val) ==
    /\ mode = "calc" /\ SameArgs(h, val)
    /\ \E oc \in Outcomes(variant, target) :
          calc' = [op |-> "update_hash", h |-> h, val |-> val, oc |-> oc,
                   out |-> IF oc = "value" THEN update_hash(variant, h, val) ELSE ToU32(0)]
    /\ UNCHANGED << mode, variant, target, window, w_mask, head, prev, ins_h,
                    seed, status, calls, pre, hist >>

\* A call of Crc32HashCalc::is_supported().
IsSupportedCall ==
    /\ mode = "calc" /\ calc.op \in {"none", "is_supported"}
    /\ calc' = [op |-> "is_supported", h |-> ToU32(0), val |-> ToU32(0), oc |-> "value",
                out |-> IF is_supported(target) THEN ToU32(1) ELSE ToU32(0)]
    /\ UNCHANGED << mode, variant, target, window, w_mask, head, prev, ins_h,
                    seed, status, calls, pre, hist >>

Next ==
    \/ \E string \in NextStrings \cup {FirstPosition} : QuickInsertString(string)
    \/ \E string \in NextStrings, count \in 0..MaxCount : InsertString(string, count)
    \/ \E h \in HSamples, val \in ValSamples : HashCalcCall(h, val)
    \/ \E h \in HSamples, val \in ValSamples : UpdateHashCall(h, val)
    \/ IsSupportedCall

Spec == Init /\ [][Next]_vars

\* ----------------------------------------------------------------- claims

\* The tables and the register before a call, as the insertions take them.
PreState == [head |-> pre.head, prev |-> pre.prev, ins_h |-> pre.ins_h]

\* quick_insert_string(string), quick_insert_string(string + 1), ..., count
\* calls in increasing order from st, stopping at the first that does not
\* return.
RECURSIVE QuickSeq(_, _, _)
QuickSeq(st, string, count) ==
    IF count = 0 THEN Result(st.head, st.prev, st.ins_h, "ok", 0, << >>)
    ELSE
      LET r == quick_insert_string(variant, target, Last.oc, window, w_mask, st, string)
      IN  IF r.status # "ok" THEN r
          ELSE QuickSeq([head |-> r.head, prev |-> r.prev, ins_h |-> r.ins_h],
                        string + 1, count - 1)

\* C1. Batch equivalence: whenever insert_string(p, count) is called with
\* its lookahead available, it leaves head, prev and ins_h (and the job)
\* exactly as the calls quick_insert_string(p), ..., quick_insert_string(p +
\* count - 1) made in increasing order from the same state leave them.
C1_BatchEquivalence ==
    (Last.op = "insert_string" /\ status # "oob") =>
        LET q == QuickSeq(PreState, Last.string, Last.count)
        IN  /\ q.head = head
            /\ q.prev = prev
            /\ q.ins_h = ins_h
            /\ q.status = status

\* A batch of three positions that returned, changed both tables, and whose
\* first position was already the head of its bucket.
C1_Witness ==
    /\ Last.op = "insert_string" /\ status = "ok" /\ Last.count = 3
    /\ head # pre.head /\ prev # pre.prev
    /\ HeadAt(pre.head, Last.log[1].hm) = Last.log[1].idx
    /\ Last.log[1].idx > 0

\* The entries of hist before the j-th that went into the j-th's bucket.
EarlierInBucket(j) == { i \in 1..(j - 1) : hist[i].hm = hist[j].hm }

\* The largest element of a non-empty set of integers.
Max(S) == CHOOSE m \in S : \A n \in S : n <= m

\* C2. Chain threading: when the position p2 inserted last and the position
\* p1 < p2 inserted before it into the same bucket b, with no insertion into
\* b in between, then head[b] = p2 and prev[p2 & w_mask] = p1.
C2_ChainThreading ==
    LET j == Len(hist)
    IN  (j >= 2 /\ EarlierInBucket(j) # {}) =>
            LET p1 == hist[Max(EarlierInBucket(j))].idx
                p2 == hist[j].idx
            IN  p1 < p2 =>
                    /\ HeadAt(head, hist[j].hm) = p2
                    /\ prev[BitAnd(p2, w_mask)] = p1

\* Two positions p1 < p2 of one bucket were inserted, p1 not the sentinel and
\* p2 beyond the window mask.
C2_Witness ==
    LET j == Len(hist)
    IN  /\ j >= 2 /\ EarlierInBucket(j) # {}
        /\ hist[Max(EarlierInBucket(j))].idx >= 1
        /\ hist[Max(EarlierInBucket(j))].idx < hist[j].idx
        /\ hist[j].idx > w_mask

\* The last two calls were quick_insert_string of the same position, and
\* both returned.
TwiceInARow ==
    /\ Last.op = "quick_insert_string" /\ Before.op = "quick_insert_string"
    /\ Last.string = Before.string
    /\ status = "ok"

\* C3 as stated. No-op suppression, for every strategy: after
\* quick_insert_string(p) twice in a row, prev is as the first call left it
\* and the head of p's bucket is still p.
C3_Original ==
    TwiceInARow =>
        /\ prev = pre.prev
        /\ HeadAt(head, Before.log[1].hm) = Last.string % U16

\* C3, amended. After quick_insert_string(p) twice in a row the head of the
\* bucket the first call used is still p and no prev entry other than
\* prev[p & w_mask] has changed; for Standard and Crc32, and for Roll when
\* the second call selects the same bucket again, the second call changes
\* neither prev nor head.
C3_NoOpSuppression ==
    TwiceInARow =>
        /\ HeadAt(head, Before.log[1].hm) = Last.string % U16
        /\ \A i \in DOMAIN prev :
              i # BitAnd(Last.string, w_mask) => prev[i] = pre.prev[i]
        /\ (variant # "Roll" \/ Last.log[1].hm = Before.log[1].hm) =>
              (prev = pre.prev /\ head = pre.head)

\* A position whose chain slot holds an older position was inserted twice
\* in a row under Standard or Crc32.
C3_Witness ==
    /\ TwiceInARow
    /\ variant # "Roll"
    /\ Last.string >= 1
    /\ prev[BitAnd(Last.string, w_mask)] >= 1

\* The bucket of position p for the job's strategy, the register holding
\* reg: update_hash of the word at p (Standard, Crc32) or of the register
\* and the byte at p + HASH_CALC_OFFSET (Roll).
BucketOf(reg, p) ==
    IF variant = "Roll"
    THEN ToInt(update_hash(variant, ToU32(reg),
                           ToU32(window[p + HASH_CALC_OFFSET(variant) + 1])))
    ELSE ToInt(update_hash(variant, ToU32(0),
                           from_ne_bytes(target, SubSeq(window, p + 1, p + 4))))

\* C4. quick_insert_string(p) returns the value head[bucket(p)] held
\* immediately before the call, whether or not the call updates the table:
\* the sentinel 0 when the bucket was empty.
C4_ReturnsPriorHead ==
    (Last.op = "quick_insert_string" /\ status = "ok") =>
        LET b == BucketOf(pre.ins_h, Last.string)
        IN  /\ Last.ret = HeadAt(pre.head, b)
            /\ (b \notin DOMAIN pre.head => Last.ret = 0)

\* A quick_insert_string that found an older position at the head of the
\* bucket, returned it, and replaced it.
C4_Witness ==
    /\ Last.op = "quick_insert_string" /\ status = "ok"
    /\ Last.ret >= 1
    /\ Last.ret # Last.string
    /\ HeadAt(head, BucketOf(pre.ins_h, Last.string)) = Last.string

\* The number of buckets of strategy v.
TableSize(v) == IF v = "Crc32" THEN HASH_CALC_MASK(v) + 1 ELSE 32768

\* C5. Masking: every value update_hash returns lies in [0, table_size),
\* table_size = HASH_CALC_MASK + 1 (32768 for Standard and Roll); so does
\* every bucket index an insertion used, and the register ins_h after a Roll
\* insertion.
C5_Masking ==
    /\ TableSize(variant) = HASH_CALC_MASK(variant) + 1
    /\ (calc.op = "update_hash" /\ calc.oc = "value") =>
          (calc.out[1] = 0 /\ calc.out[2] \in 0..(TableSize(variant) - 1))
    /\ \A i \in 1..Len(hist) : hist[i].hm \in 0..(TableSize(variant) - 1)
    /\ (variant = "Roll" /\ hist # << >>) =>
          ins_h \in 0..(TableSize(variant) - 1)

\* update_hash returned less than hash_calc yields for the same arguments:
\* the mask removed set bits.
C5_Witness ==
    /\ calc.op = "update_hash" /\ calc.oc = "value"
    /\ hash_calc(variant, calc.h, calc.val) # calc.out
    /\ calc.out # ToU32(0)

\* combine applied byte by byte over the first n entries of vals, from h.
RECURSIVE CombineFold(_, _, _)
CombineFold(h, vals, n) ==
    IF n = 0 THEN h
    ELSE RollHashCalc(CombineFold(h, vals, n - 1), vals[n])

\* The bytes the Roll insertions have folded into the register, in order.
Fed == [i \in 1..Len(hist) |-> hist[i].val]

\* C6 as stated. Rolling consistency: after the register was seeded to 0 and
\* the Roll insertions applied update over two or more bytes, the register
\* equals combine applied iteratively to those bytes from 0.
C6_Original ==
    (mode = "insert" /\ variant = "Roll" /\ seed = 0 /\ Len(hist) >= 2) =>
        ToU32(ins_h) = CombineFold(ToU32(0), Fed, Len(hist))

\* C6, amended. The register equals the low 15 bits (& HASH_CALC_MASK) of
\* combine applied iteratively to those bytes from 0; over exactly two bytes
\* the two values are equal.
C6_RollingConsistency ==
    (mode = "insert" /\ variant = "Roll" /\ seed = 0 /\ Len(hist) >= 2) =>
        /\ ToU32(ins_h) = And32(CombineFold(ToU32(0), Fed, Len(hist)),
                                ToU32(HASH_CALC_MASK(variant)))
        /\ Len(hist) = 2 => ToU32(ins_h) = CombineFold(ToU32(0), Fed, 2)

\* Single and batched Roll insertions folded five or more bytes into a
\* register seeded to 0, and the iterated combine exceeds the mask.
C6_Witness ==
    /\ mode = "insert" /\ variant = "Roll" /\ seed = 0 /\ Len(hist) >= 5
    /\ Last.op = "insert_string" /\ Before.op = "quick_insert_string"
    /\ CombineFold(ToU32(0), Fed, Len(hist)) # ToU32(ins_h)

\* The last hash function call was Roll's hash_calc(h, val), h and val given
\* as integers.
RollCombineOf(h, val) ==
    /\ calc.op = "hash_calc" /\ variant = "Roll"
    /\ calc.h = ToU32(h) /\ calc.val = ToU32(val)

\* C7. Roll's combine is (prior_hash << 5) XOR byte on u32 with no mask of
\* its own: it always returns, a value that for arguments below 2^26 is the
\* integer (h * 32) XOR val, and it reproduces the fixtures combine(2565, 93)
\* = 82173, combine(16637, 10) = 532394, combine(29988, 101) = 959717.
C7_RollCombine ==
    (calc.op = "hash_calc" /\ variant = "Roll") =>
        /\ calc.oc = "value"
        /\ (calc.h[1] < 1024 /\ calc.val[1] < 1024) =>
              ToInt(calc.out) = BitXor(ToInt(calc.h) * 32, ToInt(calc.val))
        /\ RollCombineOf(2565, 93) => calc.out = ToU32(82173)
        /\ RollCombineOf(16637, 10) => calc.out = ToU32(532394)
        /\ RollCombineOf(29988, 101) => calc.out = ToU32(959717)

\* Roll's hash_calc(29988, 101) was called and returned 959717, a value above
\* HASH_CALC_MASK.
C7_Witness ==
    /\ RollCombineOf(29988, 101)
    /\ calc.out = ToU32(959717)
    /\ ToInt(calc.out) > HASH_CALC_MASK(variant)

\* The last hash function call was Crc32HashCalc::hash_calc.
Crc32Combine == calc.op = "hash_calc" /\ variant = "Crc32"

\* The last hash function call was is_supported(), and it returned b.
Probed(b) == calc.op = "is_supported" /\ calc.out = ToU32(IF b THEN 1 ELSE 0)

\* C8 as stated. Capability guard: on every build configuration where
\* is_supported() is false, Crc32's hash_calc ends in the explicit abort and
\* returns no value; is_supported() is true on x86 and x86_64 and false on
\* every architecture other than x86, x86_64 and aarch64.
C8_Original ==
    /\ (Crc32Combine /\ ~is_supported(target)) => calc.oc = "abort"
    /\ (calc.op = "is_supported" /\ target.arch \in {"x86", "x86_64"}) => Probed(TRUE)
    /\ (calc.op = "is_supported" /\ target.arch \notin {"x86", "x86_64", "aarch64"})
          => Probed(FALSE)

\* C8, amended. On every architecture other than x86, x86_64 and aarch64
\* is_supported() is false and Crc32's hash_calc ends in the explicit abort
\* and returns no value, and the abort happens on no other target; on aarch64
\* is_supported() is true exactly when the std feature is on and the CPU has
\* the crc feature, and hash_calc is the CRC32C instruction whatever the
\* probe says: it never ends in the explicit abort; is_supported() is true
\* unconditionally on x86 and x86_64.
C8_CapabilityGuard ==
    /\ (Crc32Combine /\ target.arch \notin {"x86", "x86_64", "aarch64"})
          => (calc.oc = "abort" /\ ~is_supported(target))
    /\ (Crc32Combine /\ calc.oc = "abort")
          => (~is_supported(target) /\ target.arch \notin {"x86", "x86_64", "aarch64"})
    /\ (Crc32Combine /\ target.arch = "aarch64" /\ target.hw_crc) => calc.oc = "value"
    /\ (calc.op = "is_supported" /\ target.arch \in {"x86", "x86_64"}) => Probed(TRUE)
    /\ (calc.op = "is_supported" /\ target.arch = "aarch64")
          => Probed(target.std /\ target.hw_crc)
    /\ (calc.op = "is_supported" /\ target.arch \notin {"x86", "x86_64", "aarch64"})
          => Probed(FALSE)

\* Crc32's hash_calc was called on a target whose probe answers false, and
\* ended in the abort.
C8_Witness ==
    /\ Crc32Combine
    /\ ~is_supported(target)
    /\ calc.oc = "abort"

\* The walk p, prev[p & w_mask], prev[... & w_mask], ... up to the sentinel 0,
\* cut after fuel positions.
RECURSIVE ChainFrom(_, _)
ChainFrom(p, fuel) ==
    IF p = 0 \/ fuel = 0 THEN << >>
    ELSE << p >> \o ChainFrom(prev[BitAnd(p, w_mask)], fuel - 1)

\* The positions among the first n entries of hist that went into bucket b,
\* most recent first.
RECURSIVE InsertedInto(_, _)
InsertedInto(b, n) ==
    IF n = 0 THEN << >>
    ELSE IF hist[n].hm = b
         THEN << hist[n].idx >> \o InsertedInto(b, n - 1)
         ELSE InsertedInto(b, n - 1)

\* The positions inserted so far are strictly increasing and all lie in
\* [1, window_size).
IncreasingInWindow ==
    /\ \A i \in 1..Len(hist) : hist[i].idx \in 1..w_mask
    /\ \A i \in 1..(Len(hist) - 1) : hist[i].idx < hist[i + 1].idx

\* The buckets that were inserted into or whose head is set.
UsedBuckets == DOMAIN head \cup { hist[i].hm : i \in 1..Len(hist) }

\* C9. Recency-ordered chains: from cleared tables, after single or batched
\* insertions of strictly increasing positions in [1, window_size), the walk
\* of every bucket from its head along prev visits exactly the positions
\* inserted into that bucket, most recent first and so strictly decreasing,
\* and ends at the sentinel 0: no cycle, no self-referencing entry.
C9_RecencyOrderedChains ==
    (mode = "insert" /\ IncreasingInWindow) =>
        \A b \in UsedBuckets :
            LET walk == ChainFrom(HeadAt(head, b), Len(hist) + 1)
            IN  /\ walk = InsertedInto(b, Len(hist))
                /\ \A i \in 1..(Len(walk) - 1) : walk[i] > walk[i + 1]
                /\ \A i \in 1..Len(walk) : prev[BitAnd(walk[i], w_mask)] # walk[i]

\* Single and batched insertions of increasing positions built a chain of
\* two or more positions in one bucket beside another used bucket.
C9_Witness ==
    /\ mode = "insert" /\ IncreasingInWindow
    /\ Len(hist) >= 4
    /\ Last.op = "insert_string" /\ Before.op = "quick_insert_string"
    /\ \E b \in UsedBuckets : Len(InsertedInto(b, Len(hist))) >= 2
    /\ \E b \in UsedBuckets : Len(InsertedInto(b, Len(hist))) = 1

\* The last call made again from the state before it, the register holding
\* reg instead.
Replayed(reg) ==
    LET st == [head |-> pre.head, prev |-> pre.prev, ins_h |-> reg]
    IN  IF Last.op = "quick_insert_string"
        THEN quick_insert_string(variant, target, Last.oc, window, w_mask, st, Last.string)
        ELSE insert_string(variant, target, Last.oc, window, w_mask, st,
                           Last.string, Last.count)

\* C10. Frame of an insertion: quick_insert_string(p) changes at most
\* head[bucket(p)] and prev[p & w_mask] (and ins_h for Roll); every other
\* head and prev entry, the window and w_mask are as before, and a call that
\* does not return changes nothing. For Standard and Crc32 neither
\* insertion changes ins_h, and neither reads it: made with another value in
\* the register, the call leaves the same tables.
C10_Frame ==
    /\ Last.op # "none" => (window = pre.window /\ w_mask = pre.w_mask)
    /\ (Last.op = "quick_insert_string" /\ status = "ok") =>
          /\ \A b \in DOMAIN head \cup DOMAIN pre.head :
                b # BucketOf(pre.ins_h, Last.string) =>
                    HeadAt(head, b) = HeadAt(pre.head, b)
          /\ \A i \in DOMAIN prev :
                i # BitAnd(Last.string, w_mask) => prev[i] = pre.prev[i]
          /\ DOMAIN prev = DOMAIN pre.prev
    /\ (Last.op = "quick_insert_string" /\ status # "ok") =>
          (head = pre.head /\ prev = pre.prev /\ ins_h = pre.ins_h)
    /\ (Last.op # "none" /\ variant # "Roll") =>
          /\ ins_h = pre.ins_h
          /\ \A reg \in {0, pre.ins_h + 1} :
                LET r == Replayed(reg)
                IN  /\ r.head = head /\ r.prev = prev /\ r.ins_h = reg
                    /\ r.ret = Last.ret /\ r.status = status

\* A quick_insert_string of Standard or Crc32 changed a head entry and a prev
\* entry of tables holding other entries, the register not 0.
C10_Witness ==
    /\ Last.op = "quick_insert_string" /\ status = "ok" /\ variant # "Roll"
    /\ head # pre.head /\ prev # pre.prev
    /\ Cardinality(DOMAIN pre.head) >= 2
    /\ \E i \in DOMAIN prev : i # BitAnd(Last.string, w_mask) /\ prev[i] # 0
    /\ ins_h # 0

\* The last three positions the Roll insertions processed are consecutive:
\* p - 2, p - 1, p, in that order (p is then Cursor).
ThreeInOrder ==
    /\ mode = "insert" /\ variant = "Roll"
    /\ Len(hist) >= 3
    /\ hist[Len(hist) - 2].idx + 1 = hist[Len(hist) - 1].idx
    /\ hist[Len(hist) - 1].idx + 1 = hist[Len(hist)].idx

\* Values of state.ins_h another run may hold before it inserts p - 2.
RegSamples == {1, 32767}

\* The window buffer that agrees with window on the bytes at p, p + 1 and
\* p + 2 and holds the complement of window's byte everywhere else.
OtherWindow(p) ==
    [i \in 1..Len(window) |->
        IF i \in (p + 1)..(p + 3) THEN window[i] ELSE (U8 - 1) - window[i]]

\* The tables and the register a Result leaves.
After(r) == [head |-> r.head, prev |-> r.prev, ins_h |-> r.ins_h]

\* Another run inserting p - 2, p - 1, p: over the window w, from cleared
\* tables and the register reg, by one insert_string or by three
\* quick_insert_string.
OtherRun(reg, w, p, batched) ==
    LET st == [head |-> EmptyHead, prev |-> [i \in 0..w_mask |-> 0], ins_h |-> reg]
    IN  IF batched
        THEN insert_string(variant, target, "value", w, w_mask, st, p - 2, 3)
        ELSE
          LET r1 == quick_insert_string(variant, target, "value", w, w_mask, st, p - 2)
              r2 == quick_insert_string(variant, target, "value", w, w_mask, After(r1), p - 1)
          IN  quick_insert_string(variant, target, "value", w, w_mask, After(r2), p)

\* C11. Roll window independence: once the Roll insertions have processed
\* three consecutive positions p - 2, p - 1, p in order, by single or batched
\* calls, the register ins_h and the bucket p went into are a function of the
\* window bytes at p, p + 1, p + 2 alone: update_hash folded over those three
\* bytes from 0, and what another run reaches that agrees on those bytes but
\* differs in its register seed, in every other window byte, in its tables
\* and in the kind of call that inserted p.
C11_RollWindowIndependence ==
    ThreeInOrder =>
        LET p  == Cursor
            b3 == ToInt(update_hash(variant,
                        update_hash(variant,
                            update_hash(variant, ToU32(0), ToU32(window[p + 1])),
                            ToU32(window[p + 2])),
                        ToU32(window[p + 3])))
        IN  /\ ins_h = b3
            /\ hist[Len(hist)].hm = b3
            /\ \A reg \in RegSamples :
                  LET r == OtherRun(reg, OtherWindow(p), p, Last.op # "insert_string")
                  IN  /\ r.status = "ok"
                      /\ r.ins_h = ins_h
                      /\ r.log[Len(r.log)].hm = hist[Len(hist)].hm

\* A Roll job whose register was seeded with the hash of its first two bytes
\* processed positions p - 2 >= 1, p - 1 and p by a single insertion followed
\* by a batch, and from the register 0 the first of them goes to another
\* bucket.
C11_Witness ==
    /\ ThreeInOrder
    /\ seed # 0 /\ ins_h # 0
    /\ Cursor >= 3
    /\ Before.op = "quick_insert_string" /\ Last.op = "insert_string"
    /\ Last.count \in {1, 2}
    /\ BucketOf(0, Cursor - 2) # hist[Len(hist) - 2].hm

\* The last call was quick_insert_string of Standard or Crc32, at a position
\* whose 16-bit truncation is 0, into a bucket whose head was 0, and it
\* returned.
IntoEmptyAtZero ==
    /\ Last.op = "quick_insert_string" /\ variant # "Roll" /\ status = "ok"
    /\ Last.string % U16 = 0
    /\ HeadAt(pre.head, BucketOf(pre.ins_h, Last.string)) = 0

\* C12. Position 0 is absorbed by the sentinel: for Standard and Crc32,
\* quick_insert_string of a position whose 16-bit truncation is 0 into a
\* bucket whose head is 0 returns 0 and leaves head and prev (and ins_h) as
\* they were: the tables are those of a job that never inserted the position.
C12_SentinelAbsorbs ==
    IntoEmptyAtZero =>
        /\ Last.ret = 0
        /\ head = pre.head
        /\ prev = pre.prev
        /\ ins_h = pre.ins_h

\* Position 0 was inserted into a bucket whose head was 0 while the chain
\* slot of position 0 and another bucket held positions inserted before.
C12_Witness ==
    /\ IntoEmptyAtZero
    /\ Last.string = 0
    /\ prev[BitAnd(Last.string, w_mask)] # 0
    /\ DOMAIN head # {}

\* The number of bytes of the window the last call was made on from position
\* q to its end.
Avail(q) == IF q > Len(pre.window) THEN 0 ELSE Len(pre.window) - q

\* The last call was made without its lookahead: a single insertion with
\* fewer than HASH_CALC_OFFSET + 4 bytes (Roll: HASH_CALC_OFFSET + 1) from its
\* position, a batched one with fewer than count + 3 bytes (Roll: count) from
\* its position + HASH_CALC_OFFSET.
LookaheadViolated ==
    LET off == HASH_CALC_OFFSET(variant)
    IN  \/ /\ Last.op = "quick_insert_string"
           /\ Avail(Last.string) < off + (IF variant = "Roll" THEN 1 ELSE 4)
        \/ /\ Last.op = "insert_string"
           /\ Avail(Last.string + off)
                 < (IF variant = "Roll" THEN Last.count ELSE Last.count + 3)

\* C13. Fault before mutation: a call made without its lookahead ends in the
\* out-of-bounds fault before any write: head, prev and ins_h are as they
\* were before the call, and a batched insertion that lacks bytes for some
\* of its positions inserts none of them.
C13_FaultBeforeMutation ==
    LookaheadViolated =>
        /\ status = "oob"
        /\ head = pre.head
        /\ prev = pre.prev
        /\ ins_h = pre.ins_h
        /\ Last.log = << >>

\* A batch of two or more positions was called on tables holding earlier
\* insertions; its first position had its lookahead, a later one did not,
\* and the call ended in the fault.
C13_Witness ==
    /\ LookaheadViolated
    /\ Last.op = "insert_string" /\ Last.count >= 2
    /\ status = "oob"
    /\ DOMAIN pre.head # {}
    /\ quick_insert_string(variant, target, "value", pre.window, pre.w_mask,
                           PreState, Last.string).status = "ok"

====
